---- MODULE Spec2Model ----
(***************************************************************************)
(* usage_example.py: a straight-line script that loads a tokenizer and a   *)
(* model by one identifier, encodes one literal string, runs one forward   *)
(* pass and prints three lines.                                            *)
(*                                                                         *)
(* The transformers library is external: each of its four calls either     *)
(* raises or returns one value out of a bounded set.  The script has no    *)
(* try/except, so a raise ends the run.  Every variable is indexed by a    *)
(* run: Spec executes run 1 alone, PairSpec executes two independent runs  *)
(* of the same script side by side (for the determinism claim).            *)
(***************************************************************************)
EXTENDS Naturals, Sequences, FiniteSets

\* Bounds on what the external library may return.
MaxSeqLen == 5
MaxHidden == 4

Runs == {1, 2}

\* The two literals of the script.
MODEL_NAME == "transformer-nlp"
TEXT == "Example input for AI task"

\* Names under which the four library calls are logged.
FnTokenizer == "AutoTokenizer.from_pretrained"
FnModel == "AutoModel.from_pretrained"
FnEncode == "tokenizer"
FnForward == "model"

\* The order the source text gives the four calls.
CallOrder == <<FnTokenizer, FnModel, FnEncode, FnForward>>

\* A name that has not been assigned yet.
UnboundStr == "<unbound>"
Unbound == [cls |-> "unbound"]
\* The outcome of a library call that raised.
Raised == [cls |-> "raise"]

VARIABLES
  pc,          \* pc[r]: the source line run r executes next (EndLine: past the end)
  status,      \* "running", "done" (fell off the end), "failed" (unhandled exception)
  model_name,  \* the script's module-level names
  tokenizer,
  model,
  text,
  inputs,
  outputs,
  stdout,      \* the lines printed so far
  calls        \* the library calls made so far, with arguments and outcome

vars == <<pc, status, model_name, tokenizer, model, text, inputs, outputs, stdout, calls>>

\* The statements of the script, by line, and the line after the last one.
Lines == <<6, 7, 8, 11, 12, 13, 16, 17, 18>>
EndLine == 19

\* A model of the wrong statement order: the model is loaded before the tokenizer.
NextLineModelFirst(l) ==
  CASE l = 6 -> 8
    [] l = 8 -> 7
    [] l = 7 -> 11
    [] l = 11 -> 12
    [] l = 12 -> 13
    [] l = 13 -> 16
    [] l = 16 -> 17
    [] l = 17 -> 18
    [] OTHER -> EndLine

\* A script that leaves out the shape line (two printed lines in all).
NextLineSkipShape(l) ==
  CASE l = 6 -> 7
    [] l = 7 -> 8
    [] l = 8 -> 11
    [] l = 11 -> 12
    [] l = 12 -> 13
    [] l = 13 -> 16
    [] l = 16 -> 18
    [] OTHER -> EndLine

\* A script that prints the shape line before the input line.
NextLineShapeFirst(l) ==
  CASE l = 6 -> 7
    [] l = 7 -> 8
    [] l = 8 -> 11
    [] l = 11 -> 12
    [] l = 12 -> 13
    [] l = 13 -> 17
    [] l = 17 -> 16
    [] l = 16 -> 18
    [] OTHER -> EndLine

\* Straight-line control flow: the statement that follows line l.
NextLine(l) ==
  IF \E i \in 1..(Len(Lines) - 1) : Lines[i] = l
    THEN Lines[(CHOOSE i \in 1..(Len(Lines) - 1) : Lines[i] = l) + 1]
    ELSE EndLine

(***************************************************************************)
(* The external library: what each call may return when it does not raise. *)
(***************************************************************************)
TokenizerResults(name) == {[cls |-> "tokenizer", name |-> name]}

ModelResults(name) ==
  {[cls |-> "model", name |-> name, hidden_size |-> h] : h \in 1..MaxHidden}

\* tokenizer(text, return_tensors="pt"): a batch of one row of n token ids.
EncodeResults(tok, txt) ==
  {[cls |-> "encoding", input_ids_shape |-> <<1, n>>] : n \in 1..MaxSeqLen}

\* model(**inputs): one hidden vector per token.
ForwardResults(mdl, enc) ==
  {[cls |-> "output",
    last_hidden_state |->
      [shape |-> <<enc.input_ids_shape[1], enc.input_ids_shape[2], mdl.hidden_size>>]]}

Init ==
  /\ pc = [r \in Runs |-> Lines[1]]
  /\ status = [r \in Runs |-> "running"]
  /\ model_name = [r \in Runs |-> UnboundStr]
  /\ tokenizer = [r \in Runs |-> Unbound]
  /\ model = [r \in Runs |-> Unbound]
  /\ text = [r \in Runs |-> UnboundStr]
  /\ inputs = [r \in Runs |-> Unbound]
  /\ outputs = [r \in Runs |-> Unbound]
  /\ stdout = [r \in Runs |-> <<>>]
  /\ calls = [r \in Runs |-> <<>>]

At(r, l) == status[r] = "running" /\ pc[r] = l

\* Control passes to the next statement; past the last one the run is done.
Advance(r) ==
  /\ pc' = [pc EXCEPT ![r] = NextLine(pc[r])]
  /\ status' = [status EXCEPT ![r] = IF NextLine(pc[r]) = EndLine THEN "done" ELSE "running"]

LogCall(r, fn, args, result) ==
  calls' = [calls EXCEPT ![r] = Append(@, [fn |-> fn, args |-> args, result |-> result])]

\* A script that catches the exception and reports it on the console.
RaiseReported(r, fn, args) ==
  /\ LogCall(r, fn, args, Raised)
  /\ status' = [status EXCEPT ![r] = "failed"]
  /\ stdout' = [stdout EXCEPT ![r] = Append(@, [line |-> "Error: " \o fn])]
  /\ UNCHANGED <<pc, model_name, tokenizer, model, text, inputs, outputs>>

\* A script that retries a failed call once.
RaiseRetryOnce(r, fn, args) ==
  /\ LogCall(r, fn, args, Raised)
  /\ status' = [status EXCEPT ![r] =
                  IF \E i \in 1..Len(calls[r]) : calls[r][i].fn = fn
                    THEN "failed" ELSE "running"]
  /\ UNCHANGED <<pc, model_name, tokenizer, model, text, inputs, outputs, stdout>>

\* The call raises and nothing catches it: the run ends at this statement.
Raise(r, fn, args) ==
  /\ LogCall(r, fn, args, Raised)
  /\ status' = [status EXCEPT ![r] = "failed"]
  /\ UNCHANGED <<pc, model_name, tokenizer, model, text, inputs, outputs, stdout>>

\* line 6: model_name = "transformer-nlp"
AssignModelName(r) ==
  /\ At(r, 6)
  /\ model_name' = [model_name EXCEPT ![r] = MODEL_NAME]
  /\ Advance(r)
  /\ UNCHANGED <<tokenizer, model, text, inputs, outputs, stdout, calls>>

\* line 7: tokenizer = AutoTokenizer.from_pretrained(model_name)
TokenizerArgs(r) == [name |-> model_name[r]]

LoadTokenizer(r) ==
  /\ At(r, 7)
  /\ \/ \E t \in TokenizerResults(TokenizerArgs(r).name) :
          /\ tokenizer' = [tokenizer EXCEPT ![r] = t]
          /\ LogCall(r, FnTokenizer, TokenizerArgs(r), t)
          /\ Advance(r)
          /\ UNCHANGED <<model_name, model, text, inputs, outputs, stdout>>
     \/ Raise(r, FnTokenizer, TokenizerArgs(r))

\* A script that loads the model under another identifier than the tokenizer.
ModelArgsOtherName(r) == [name |-> "transformer-nlp-base"]

\* line 8: model = AutoModel.from_pretrained(model_name)
ModelArgs(r) == [name |-> model_name[r]]

LoadModel(r) ==
  /\ At(r, 8)
  /\ \/ \E m \in ModelResults(ModelArgs(r).name) :
          /\ model' = [model EXCEPT ![r] = m]
          /\ LogCall(r, FnModel, ModelArgs(r), m)
          /\ Advance(r)
          /\ UNCHANGED <<model_name, tokenizer, text, inputs, outputs, stdout>>
     \/ Raise(r, FnModel, ModelArgs(r))

\* line 11: text = "Example input for AI task"
AssignText(r) ==
  /\ At(r, 11)
  /\ text' = [text EXCEPT ![r] = TEXT]
  /\ Advance(r)
  /\ UNCHANGED <<model_name, tokenizer, model, inputs, outputs, stdout, calls>>

\* line 12: inputs = tokenizer(text, return_tensors="pt")
EncodeArgs(r) == [tokenizer |-> tokenizer[r], text |-> text[r], return_tensors |-> "pt"]

Encode(r) ==
  /\ At(r, 12)
  /\ \/ \E e \in EncodeResults(EncodeArgs(r).tokenizer, EncodeArgs(r).text) :
          /\ inputs' = [inputs EXCEPT ![r] = e]
          /\ LogCall(r, FnEncode, EncodeArgs(r), e)
          /\ Advance(r)
          /\ UNCHANGED <<model_name, tokenizer, model, text, outputs, stdout>>
     \/ Raise(r, FnEncode, EncodeArgs(r))

\* line 13: outputs = model(**inputs)
ForwardArgs(r) == [model |-> model[r], inputs |-> inputs[r]]

Forward(r) ==
  /\ At(r, 13)
  /\ \/ \E o \in ForwardResults(ForwardArgs(r).model, ForwardArgs(r).inputs) :
          /\ outputs' = [outputs EXCEPT ![r] = o]
          /\ LogCall(r, FnForward, ForwardArgs(r), o)
          /\ Advance(r)
          /\ UNCHANGED <<model_name, tokenizer, model, text, inputs, stdout>>
     \/ Raise(r, FnForward, ForwardArgs(r))

PrintLine(r, l) ==
  /\ stdout' = [stdout EXCEPT ![r] = Append(@, l)]
  /\ Advance(r)
  /\ UNCHANGED <<model_name, tokenizer, model, text, inputs, outputs, calls>>

\* A script that prints the identifier where it should print the text.
FormatInputWrongName(r) == [line |-> "Input: " \o model_name[r]]

\* line 16: print(f"Input: {text}")
FormatInput(r) == [line |-> "Input: " \o text[r]]

PrintInput(r) == At(r, 16) /\ PrintLine(r, FormatInput(r))

\* A script that prints only the last dimension of the shape.
FormatShapeLastDim(r) ==
  [line |-> "Model output shape: ",
   shape |-> <<outputs[r].last_hidden_state.shape[3]>>]

\* A script whose shape line also carries a value that differs from run to run.
FormatShapeWithRunId(r) ==
  [line |-> "Model output shape: ",
   shape |-> outputs[r].last_hidden_state.shape,
   id |-> r]

\* line 17: print(f"Model output shape: {outputs.last_hidden_state.shape}")
FormatShape(r) ==
  [line |-> "Model output shape: ", shape |-> outputs[r].last_hidden_state.shape]

PrintShape(r) == At(r, 17) /\ PrintLine(r, FormatShape(r))

\* line 18: print("Processing complete!")
FormatComplete == [line |-> "Processing complete!"]

PrintComplete(r) == At(r, 18) /\ PrintLine(r, FormatComplete)

\* One statement of run r.
Step(r) ==
  \/ AssignModelName(r)
  \/ LoadTokenizer(r)
  \/ LoadModel(r)
  \/ AssignText(r)
  \/ Encode(r)
  \/ Forward(r)
  \/ PrintInput(r)
  \/ PrintShape(r)
  \/ PrintComplete(r)

\* One execution of the script.
Next == Step(1)

Spec == Init /\ [][Next]_vars

\* The interpreter runs a statement whenever one is left to run.
FairSpec == Spec /\ WF_vars(Next)

\* Two executions of the script, each with its own library outcomes.
PairNext == \E r \in Runs : Step(r)

PairSpec == Init /\ [][PairNext]_vars

(***************************************************************************)
(* Vocabulary of the properties.                                           *)
(***************************************************************************)
Terminated(r) == status[r] \in {"done", "failed"}

CallIdx(r) == 1..Len(calls[r])

NoCallRaised(r) == \A i \in CallIdx(r) : calls[r][i].result # Raised

Count(r, fn) == Cardinality({i \in CallIdx(r) : calls[r][i].fn = fn})

FnsOf(r) == [i \in CallIdx(r) |-> calls[r][i].fn]

Results(r) == [i \in CallIdx(r) |-> calls[r][i].result]

\* How many library calls, and how many prints, stand before line l.
CallsBefore(l) == Cardinality({k \in {7, 8, 12, 13} : k < l})
PrintsBefore(l) == Cardinality({k \in {16, 17, 18} : k < l})

ShapeLineOf(r) ==
  [line |-> "Model output shape: ", shape |-> outputs[r].last_hidden_state.shape]

\* C1: a run always terminates; a run that terminates with no library call
\* having raised ended without error, and its output holds the line that
\* carries the shape of outputs.last_hidden_state.
C1_TerminatesWithShape ==
  /\ <>Terminated(1)
  /\ [](Terminated(1) /\ NoCallRaised(1) =>
          /\ status[1] = "done"
          /\ \E i \in 1..Len(stdout[1]) : stdout[1][i] = ShapeLineOf(1))

C1_Witness ==
  /\ status[1] = "done"
  /\ NoCallRaised(1)
  /\ stdout[1][2] = [line |-> "Model output shape: ", shape |-> <<1, MaxSeqLen, MaxHidden>>]

\* C2 as stated: a run in which every library call succeeds prints exactly
\* two lines.
C2_TwoLines ==
  \A r \in Runs : Terminated(r) /\ NoCallRaised(r) => Len(stdout[r]) = 2

\* C2 as amended: a run in which every library call succeeds prints exactly
\* three lines (the input line, the shape line, "Processing complete!").
C2_ThreeLines ==
  \A r \in Runs : Terminated(r) /\ NoCallRaised(r) =>
    /\ Len(stdout[r]) = 3
    /\ stdout[r][1] = [line |-> "Input: " \o TEXT]
    /\ stdout[r][2] = ShapeLineOf(r)
    /\ stdout[r][3] = [line |-> "Processing complete!"]

C2_Witness ==
  \E r \in Runs : Terminated(r) /\ NoCallRaised(r) /\ Len(calls[r]) = 4 /\ Len(stdout[r]) = 3

\* C3: a library call that raises is the last thing the run does: the run
\* has failed and can take no further step, the call was made once (no
\* retry), no call follows it, and the run has printed nothing.
C3_FailurePropagates ==
  \A r \in Runs : \A i \in CallIdx(r) :
    calls[r][i].result = Raised =>
      /\ status[r] = "failed"
      /\ i = Len(calls[r])
      /\ Count(r, calls[r][i].fn) = 1
      /\ stdout[r] = <<>>
      /\ ~ENABLED Step(r)

C3_Witness ==
  /\ status[1] = "failed"
  /\ Len(calls[1]) = 3
  /\ calls[1][3].fn = FnEncode
  /\ calls[1][3].result = Raised

\* C4: the steps happen in the one order of the source: at every line exactly
\* the calls and prints written before that line have happened, in that
\* order, every call but a final raising one succeeded, and nothing is
\* printed before all four calls have succeeded.
C4_FixedOrder ==
  \A r \in Runs :
    /\ Len(calls[r]) <= Len(CallOrder)
    /\ FnsOf(r) = SubSeq(CallOrder, 1, Len(calls[r]))
    /\ \A i \in CallIdx(r) : i < Len(calls[r]) => calls[r][i].result # Raised
    /\ Len(calls[r]) = CallsBefore(pc[r]) + (IF status[r] = "failed" THEN 1 ELSE 0)
    /\ status[r] # "failed" => NoCallRaised(r)
    /\ Len(stdout[r]) = PrintsBefore(pc[r])
    /\ stdout[r] # <<>> => Len(calls[r]) = Len(CallOrder) /\ NoCallRaised(r)
    /\ status[r] = "done" <=> pc[r] = EndLine

C4_Witness ==
  /\ pc[1] = 13
  /\ status[1] = "running"
  /\ FnsOf(1) = <<FnTokenizer, FnModel, FnEncode>>

\* C5: each library call is made at most once in a run, and a run that
\* completes has made exactly one forward pass, which succeeded.
C5_AtMostOnce ==
  \A r \in Runs :
    /\ \A k \in 1..Len(CallOrder) : Count(r, CallOrder[k]) <= 1
    /\ status[r] = "done" =>
         /\ Count(r, FnForward) = 1
         /\ \A i \in CallIdx(r) : calls[r][i].fn = FnForward => calls[r][i].result = outputs[r]

C5_Witness ==
  /\ status[1] = "done"
  /\ Count(1, FnForward) = 1
  /\ Count(1, FnTokenizer) = 1

\* C6: the tokenizer and the model are loaded with the same identifier,
\* "transformer-nlp"; the forward pass is invoked on the model that was
\* loaded and on the encoding the loaded tokenizer returned for the
\* hardcoded text.
C6_SameIdentifier ==
  \A r \in Runs : \A i \in CallIdx(r) :
    /\ calls[r][i].fn \in {FnTokenizer, FnModel} => calls[r][i].args.name = MODEL_NAME
    /\ calls[r][i].fn = FnEncode =>
         /\ calls[r][i].args.text = TEXT
         /\ \E j \in 1..(i - 1) :
              /\ calls[r][j].fn = FnTokenizer
              /\ calls[r][j].result = calls[r][i].args.tokenizer
    /\ calls[r][i].fn = FnForward =>
         /\ \E j \in 1..(i - 1) :
              /\ calls[r][j].fn = FnEncode
              /\ calls[r][j].result = calls[r][i].args.inputs
         /\ \E j \in 1..(i - 1) :
              /\ calls[r][j].fn = FnModel
              /\ calls[r][j].result = calls[r][i].args.model

C6_Witness ==
  /\ Len(calls[1]) = 4
  /\ calls[1][2].fn = FnModel
  /\ calls[1][2].args.name = calls[1][1].args.name
  /\ calls[1][4].fn = FnForward
  /\ calls[1][4].args.inputs = calls[1][3].result

\* C7: once assigned, text is the hardcoded literal for the rest of the run
\* (the tokenizer call and the forward pass leave it alone), and the input
\* line shows exactly the string that was encoded.
C7_InputLineIsText ==
  \A r \in Runs :
    /\ pc[r] > 11 => text[r] = TEXT
    /\ stdout[r] # <<>> =>
         /\ stdout[r][1] = [line |-> "Input: " \o TEXT]
         /\ \E i \in CallIdx(r) :
              /\ calls[r][i].fn = FnEncode
              /\ stdout[r][1] = [line |-> "Input: " \o calls[r][i].args.text]

C7_Witness ==
  /\ pc[1] = 17
  /\ stdout[1] = <<[line |-> "Input: Example input for AI task"]>>

\* C8: "Processing complete!" is printed only after the forward pass has
\* succeeded and after the input line and the shape line, at most once, and
\* nothing follows it; the input line precedes the shape line.
C8_CompleteIsLast ==
  \A r \in Runs : \A i \in 1..Len(stdout[r]) :
    /\ stdout[r][i].line = "Processing complete!" =>
         /\ i = Len(stdout[r])
         /\ i = 3
         /\ stdout[r][1].line = "Input: " \o text[r]
         /\ stdout[r][2].line = "Model output shape: "
         /\ \E j \in CallIdx(r) : calls[r][j].fn = FnForward /\ calls[r][j].result # Raised
         /\ ~ENABLED Step(r)
    /\ stdout[r][i].line = "Model output shape: " =>
         \E j \in 1..(i - 1) : stdout[r][j].line = "Input: " \o text[r]

C8_Witness ==
  /\ Len(stdout[1]) = 3
  /\ stdout[1][3].line = "Processing complete!"
  /\ stdout[1][2].line = "Model output shape: "

\* C9: two runs whose library calls had the same outcomes (the same values,
\* or a raise at the same call) made the same calls with the same arguments
\* and printed the same lines, at every common point of the script and in
\* particular once both have terminated.
C9_Deterministic ==
  \A r1 \in Runs : \A r2 \in Runs :
    /\ Results(r1) = Results(r2)
    /\ \/ Terminated(r1) /\ Terminated(r2)
       \/ pc[r1] = pc[r2]
    => /\ calls[r1] = calls[r2]
       /\ stdout[r1] = stdout[r2]
       /\ status[r1] = status[r2]
       /\ pc[r1] = pc[r2]

C9_Witness ==
  /\ status[1] = "done"
  /\ status[2] = "done"
  /\ Results(1) = Results(2)
  /\ stdout[1] = stdout[2]
  /\ Len(stdout[1]) = 3

====
